---- MODULE Spec2Model ----
(***************************************************************************)
(* A model of torba's BaseLedger (src/torba/baseledger.py): the header     *)
(* sync loop (start, update_headers, process_header), the per-address      *)
(* history synchronizer (update_history) and the UTXO reservation gate     *)
(* (get_spendable_utxos).                                                  *)
(*                                                                         *)
(* The ledger runs on a single-threaded cooperative event loop: a          *)
(* coroutine runs without interruption from one `yield` on an unfired      *)
(* deferred to the next.  Every action below is one such uninterrupted     *)
(* stretch: it starts when the awaited network / database / header-store   *)
(* call completes and ends when the next such call has been issued.        *)
(*                                                                         *)
(* The three subsystems work on disjoint state (the history synchronizer   *)
(* only reads the header store), so each has its own specification:        *)
(* SpecHeaders, SpecHistory and SpecUtxo.                                  *)
(***************************************************************************)
EXTENDS Integers, Sequences, FiniteSets, TLC

VARIABLES
    \* ---- header sync -------------------------------------------------
    headers,        \* self.headers: the local header store, entry h+1 is headers[h]
    server_len,     \* number of headers of the server's chain
    on_header,      \* the values added to _on_header_controller, in order
    hlock,          \* self._header_processing_lock: [locked, waiting]
    hp,             \* per coroutine (start, push handlers): position and locals
    stop,           \* BaseLedger.stop: the call it awaits ("idle" before, "done" after)
    \* ---- history sync ------------------------------------------------
    remote,         \* the server's history of each address
    db_tx,          \* the database's tx rows: txid -> row
    db_history,     \* the database's address rows: address -> history string
    tx_locks,       \* self._transaction_processing_locks: txid -> lock object or NoLock
    locks,          \* the DeferredLock objects: lock id -> [locked, waiting]
    uh,             \* per update_history coroutine: position and locals
    on_transaction, \* per coroutine: the TransactionEvents its current run published
    saves,          \* per coroutine: the save_transaction_io calls of its current run
    merkle_calls,   \* per coroutine: the get_merkle requests of its current run
    inserts,        \* per txid: the save_transaction_io calls made with mode 'insert'
    \* ---- UTXO reservation ---------------------------------------------
    ulock,          \* self._utxo_reservation_lock: [locked, waiting]
    reserved,       \* the database's reserved outputs
    spent,          \* outputs consumed by a broadcast transaction
    gs,             \* per get_spendable_utxos coroutine: position and locals
    \* ---- account restore -----------------------------------------------
    chain,          \* the account's address chain: [n, used]
    server_used,    \* the addresses of the chain that have a history on the server
    ua              \* the update_account coroutine: position, locals and calls made

vars == <<headers, server_len, on_header, hlock, hp, stop,
          remote, db_tx, db_history, tx_locks, locks, uh, on_transaction, saves,
          merkle_calls, inserts,
          ulock, reserved, spent, gs,
          chain, server_used, ua>>

headerVars  == <<headers, server_len, on_header, hlock, hp, stop>>
historyVars == <<remote, db_tx, db_history, tx_locks, locks, uh, on_transaction, saves,
                 merkle_calls, inserts>>
utxoVars    == <<ulock, reserved, spent, gs>>
accountVars == <<chain, server_used, ua>>

(***************************************************************************)
(* Bounds of the model.                                                    *)
(***************************************************************************)
MaxChain == 4       \* the server's chain grows to at most this many headers

Min(a, b) == IF a < b THEN a ELSE b

(***************************************************************************)
(* twisted's DeferredLock, as the ledger uses it.  acquire() on a free     *)
(* lock takes it at once; on a held lock the caller is queued.  release()  *)
(* hands the lock to the first waiter, which resumes inside release().     *)
(***************************************************************************)
FreeLock == [locked |-> FALSE, waiting |-> <<>>]

(***************************************************************************)
(* Bytes, hashes and the Merkle verifier.  A hash is a string of two       *)
(* bytes; double_sha256 is a small mixing function with the same shape     *)
(* (any byte string in, two bytes out).  A hex string and its bytes are    *)
(* the same sequence here: hexlify / unhexlify only change notation.       *)
(***************************************************************************)
TxIds == {"t1", "t2"}

Reverse(s) == [k \in 1..Len(s) |-> s[Len(s) + 1 - k]]

RECURSIVE Mix(_, _)
Mix(s, acc) == IF s = <<>> THEN acc ELSE Mix(Tail(s), (acc * 5 + Head(s) + 1) % 16)

\* torba.hash.double_sha256
DoubleSha256(s) == LET m == Mix(s, 7) IN <<m % 4, m \div 4>>

\* tx.hash, the transaction's hash in internal byte order
TxHash(t) == IF t = "t1" THEN <<1, 0>> ELSE <<2, 0>>

\* does get_root_of_merkle_tree put the i-th branch (i from 0) on the left?
OtherBranchOnLeft(branch_positions, i) == ((branch_positions \div (2 ^ i)) % 2) = 1

\* BaseLedger.get_root_of_merkle_tree, from branch i (i from 0) on
RECURSIVE MerkleFrom(_, _, _, _)
MerkleFrom(branches, branch_positions, working_branch, i) ==
    IF i >= Len(branches)
      THEN Reverse(working_branch)
      ELSE LET other_branch == Reverse(branches[i + 1])
               combined == IF OtherBranchOnLeft(branch_positions, i)
                             THEN other_branch \o working_branch
                             ELSE working_branch \o other_branch
           IN  MerkleFrom(branches, branch_positions, DoubleSha256(combined), i + 1)

GetRootOfMerkleTree(branches, branch_positions, working_branch) ==
    MerkleFrom(branches, branch_positions, working_branch, 0)

\* The server's chain: block 1 holds t1 alone, block 2 holds a transaction
\* with hash Sibling on the left of t2; the other blocks hold neither.
Sibling == <<3, 1>>

BlockMerkleRoot(h) ==
    IF h = 1 THEN Reverse(TxHash("t1"))
    ELSE IF h = 2 THEN Reverse(DoubleSha256(Sibling \o TxHash("t2")))
    ELSE <<3, h % 4>>

\* network.get_merkle(txid, height): the proof of the block at that height for
\* a transaction in it, a proof that leads elsewhere for any other request
GetMerkle(t, h) ==
    IF t = "t1" /\ h = 1 THEN [merkle |-> <<>>, pos |-> 0]
    ELSE IF t = "t2" /\ h = 2 THEN [merkle |-> <<Reverse(Sibling)>>, pos |-> 1]
    ELSE [merkle |-> <<Reverse(Sibling)>>, pos |-> 0]

(***************************************************************************)
(* The header store.  Headers are dense from height 0; a header is         *)
(* modelled by its merkle_root.                                            *)
(***************************************************************************)
\* the merkle_root of the server chain's header at height h (defined with the
\* Merkle verifier below)
ChainRoot(h) == BlockMerkleRoot(h)

\* len(self.headers)
HeadersLen(hdrs) == Len(hdrs)

\* self.headers.height: the height of the last stored header
HeadersHeight(hdrs) == Len(hdrs) - 1

\* self.headers.connect(start, bytes): the headers are written from height start on
HeadersConnect(hdrs, start, new) == SubSeq(hdrs, 1, start) \o new

\* the count headers the server returns from height start on
ServerHeaders(start, count) == [k \in 1..count |-> ChainRoot(start + k - 1)]

\* network.get_headers(height_sought, 2000): the counts the server may answer with
BatchLimit == 2000

GetHeadersCounts(start) ==
    IF server_len - start <= 0 THEN {0} ELSE 1..Min(server_len - start, BatchLimit)

(***************************************************************************)
(* Header sync coroutines: "start" is BaseLedger.start, the others are     *)
(* process_header invocations, one per header notification.                *)
(*   pc       where the coroutine is suspended                             *)
(*   push     header['height'] of the notification                         *)
(*   sought   height_sought / the start height of the connect in flight    *)
(*   count    headers['count'] of the connect in flight                    *)
(*   entry    len(self.headers) when process_header chose its branch       *)
(*   gets     get_headers requests issued by this invocation               *)
(*   pubs     values this invocation added to on_header                    *)
(***************************************************************************)
Handlers == {"q1", "q2"}
HProcs   == {"start"} \cup Handlers

HIdle == [pc |-> "idle", push |-> -1, sought |-> -1, count |-> 0,
          entry |-> -1, gets |-> 0, pubs |-> <<>>]

\* comparing the pushed height with the height of the last header instead of
\* the number of headers
ProcessHeaderBranch_AgainstHeight(height, len) ==
    IF height = len - 1 THEN "connect"
    ELSE IF height > len - 1 THEN "bulk"
    ELSE "ignore"

\* a plain else in place of the elif of line 255: whatever does not connect
\* directly is downloaded
ProcessHeaderBranch_ElseBulk(height, len) ==
    IF height = len THEN "connect" ELSE "bulk"

\* process_header's choice between direct connect, bulk download and nothing
ProcessHeaderBranch(height, len) ==
    IF height = len THEN "connect"
    ELSE IF height > len THEN "bulk"
    ELSE "ignore"

\* process_header from the moment it holds the lock up to its first suspension
\* (or its end, for a stale notification: pc = "done", lock to be released)
EnterProcessHeader(f, q, len) ==
    LET b == ProcessHeaderBranch(f[q].push, len) IN
    IF b = "connect"
      THEN [f EXCEPT ![q].pc = "ph_connect", ![q].entry = len,
                     ![q].sought = len, ![q].count = 1]
    ELSE IF b = "bulk"
      THEN [f EXCEPT ![q].pc = "uh_get", ![q].entry = len,
                     ![q].sought = len, ![q].gets = 1]
    ELSE [f EXCEPT ![q].pc = "done", ![q].entry = len]

\* _header_processing_lock.release(): the first waiter gets the lock and runs
\* inside release(); a waiter that finishes at once releases in turn
RECURSIVE ReleaseHeaderLock(_, _, _)
ReleaseHeaderLock(f, waiting, len) ==
    IF waiting = <<>>
      THEN [hp |-> f, lock |-> FreeLock]
      ELSE LET q == Head(waiting)
               g == EnterProcessHeader(f, q, len)
           IN  IF g[q].pc = "done"
                 THEN ReleaseHeaderLock(g, Tail(waiting), len)
                 ELSE [hp |-> g, lock |-> [locked |-> TRUE, waiting |-> Tail(waiting)]]

\* publishing the number of headers instead of the height of the last one
HeaderEventValue_Length(hdrs) == HeadersLen(hdrs)

\* the value update_headers and process_header add to on_header after a connect
HeaderEventValue(hdrs) == HeadersHeight(hdrs)

\* does update_headers, run by w, take _header_processing_lock itself?  It does
\* not: only process_header acquires it.
HoldsHeaderLock(w) == w \in Handlers /\ hp[w].pc \in {"ph_connect", "uh_get", "uh_connect"}

InBulk(w) == hp[w].pc \in {"uh_get", "uh_connect"}

----------------------------------------------------------------------------
(* BaseLedger.start *)

\* start(): yield self.db.start()
StartBegin ==
    /\ hp["start"].pc = "idle"
    /\ hp' = [hp EXCEPT !["start"].pc = "s_db"]
    /\ UNCHANGED <<headers, server_len, on_header, hlock>>
    /\ UNCHANGED <<stop, historyVars, utxoVars, accountVars>>

\* db.start() done: self.network.start(); yield first_connection
StartDbStarted ==
    /\ hp["start"].pc = "s_db"
    /\ hp' = [hp EXCEPT !["start"].pc = "s_net"]
    /\ UNCHANGED <<headers, server_len, on_header, hlock>>
    /\ UNCHANGED <<stop, historyVars, utxoVars, accountVars>>

\* connected: self.headers.touch(); update_headers() asks for the first batch
StartConnected ==
    /\ hp["start"].pc = "s_net"
    /\ hp' = [hp EXCEPT !["start"].pc = "uh_get",
                        !["start"].sought = HeadersLen(headers),
                        !["start"].gets = 1]
    /\ UNCHANGED <<headers, server_len, on_header, hlock>>
    /\ UNCHANGED <<stop, historyVars, utxoVars, accountVars>>

\* subscribe_headers() done: yield self.update_accounts()
StartSubscribed ==
    /\ hp["start"].pc = "s_sub"
    /\ hp' = [hp EXCEPT !["start"].pc = "s_accounts"]
    /\ UNCHANGED <<headers, server_len, on_header, hlock>>
    /\ UNCHANGED <<stop, historyVars, utxoVars, accountVars>>

\* update_accounts() done: start() returns
StartAccountsUpdated ==
    /\ hp["start"].pc = "s_accounts"
    /\ hp' = [hp EXCEPT !["start"].pc = "done"]
    /\ UNCHANGED <<headers, server_len, on_header, hlock>>
    /\ UNCHANGED <<stop, historyVars, utxoVars, accountVars>>

----------------------------------------------------------------------------
(* BaseLedger.stop *)

\* the database is stopped first
StopCalls_DbFirst == <<"db.stop", "network.stop">>

\* the calls stop() awaits, in order: yield self.network.stop();
\* yield self.db.stop()
StopCalls == <<"network.stop", "db.stop">>

\* stop() is called on a started ledger: its first call is requested
Stop ==
    /\ stop = "idle"
    /\ hp["start"].pc = "done"
    /\ stop' = StopCalls[1]
    /\ UNCHANGED <<headers, server_len, on_header, hlock, hp>>
    /\ UNCHANGED <<historyVars, utxoVars, accountVars>>

\* the call stop() awaits is done: the next one is requested, or stop() returns
StopCallDone ==
    /\ \E k \in 1..Len(StopCalls) :
         /\ stop = StopCalls[k]
         /\ stop' = IF k < Len(StopCalls) THEN StopCalls[k + 1] ELSE "done"
    /\ UNCHANGED <<headers, server_len, on_header, hlock, hp>>
    /\ UNCHANGED <<historyVars, utxoVars, accountVars>>

\* the server sends header notifications once subscribe_headers was requested
Subscribed == hp["start"].pc \in {"s_sub", "s_accounts", "done"}

----------------------------------------------------------------------------
(* update_headers, run by start or by process_header *)

\* the coroutine w ends: process_header's finally releases the lock
FinishHeaderProc(f, w, ok) ==
    IF w = "start"
      THEN [hp |-> [f EXCEPT ![w].pc = IF ok THEN "s_sub" ELSE "failed"],
            lock |-> hlock]
      ELSE ReleaseHeaderLock([f EXCEPT ![w].pc = IF ok THEN "done" ELSE "failed"],
                             hlock.waiting, HeadersLen(headers'))

\* a loop that ends only on a negative count
BulkExits_OnlyNegative(count) == count < 0

\* update_headers: if headers['count'] <= 0: break
BulkExits(count) == count <= 0

\* get_headers answered: break on count <= 0, else headers.connect(...)
GetHeadersResponse(w) ==
    /\ hp[w].pc = "uh_get"
    /\ \E count \in GetHeadersCounts(hp[w].sought) :
         IF BulkExits(count)
           THEN /\ headers' = headers
                /\ LET r == FinishHeaderProc(hp, w, TRUE) IN
                     /\ hp' = r.hp
                     /\ hlock' = r.lock
           ELSE /\ hp' = [hp EXCEPT ![w].pc = "uh_connect", ![w].count = count]
                /\ UNCHANGED <<headers, hlock>>
    /\ UNCHANGED <<server_len, on_header>>
    /\ UNCHANGED <<stop, historyVars, utxoVars, accountVars>>

\* headers.connect of a bulk batch done: publish, then ask for the next batch
BulkConnectDone(w) ==
    /\ hp[w].pc = "uh_connect"
    /\ headers' = HeadersConnect(headers, hp[w].sought,
                                 ServerHeaders(hp[w].sought, hp[w].count))
    /\ on_header' = Append(on_header, HeaderEventValue(headers'))
    /\ hp' = [hp EXCEPT ![w].pc = "uh_get",
                        ![w].sought = HeadersLen(headers'),
                        ![w].count = 0,
                        ![w].gets = @ + 1,
                        ![w].pubs = Append(@, HeaderEventValue(headers'))]
    /\ UNCHANGED <<server_len, hlock>>
    /\ UNCHANGED <<stop, historyVars, utxoVars, accountVars>>

----------------------------------------------------------------------------
(* process_header *)

\* a header notification arrives: process_header(response) acquires the lock
ProcessHeader(q) ==
    /\ hp[q].pc = "idle"
    /\ Subscribed
    /\ \E height \in 0..(server_len - 1) :
         LET f == [hp EXCEPT ![q].push = height] IN
         IF hlock.locked
           THEN /\ hp' = [f EXCEPT ![q].pc = "wait"]
                /\ hlock' = [hlock EXCEPT !.waiting = Append(@, q)]
           ELSE LET g == EnterProcessHeader(f, q, HeadersLen(headers)) IN
                IF g[q].pc = "done"
                  THEN /\ hp' = g
                       /\ hlock' = hlock
                  ELSE /\ hp' = g
                       /\ hlock' = [hlock EXCEPT !.locked = TRUE]
    /\ UNCHANGED <<headers, server_len, on_header>>
    /\ UNCHANGED <<stop, historyVars, utxoVars, accountVars>>

\* headers.connect of the pushed header done: publish, release the lock
PushConnectDone(q) ==
    /\ hp[q].pc = "ph_connect"
    /\ headers' = HeadersConnect(headers, hp[q].sought, ServerHeaders(hp[q].push, 1))
    /\ on_header' = Append(on_header, HeaderEventValue(headers'))
    /\ LET r == FinishHeaderProc([hp EXCEPT ![q].pubs = Append(@, HeaderEventValue(headers'))],
                                 q, TRUE) IN
         /\ hp' = r.hp
         /\ hlock' = r.lock
    /\ UNCHANGED server_len
    /\ UNCHANGED <<stop, historyVars, utxoVars, accountVars>>

\* a request of process_header fails (network error, header rejected by
\* connect): the exception leaves through finally
ProcessHeaderFails(q) ==
    /\ q \in Handlers
    /\ hp[q].pc \in {"ph_connect", "uh_get", "uh_connect"}
    /\ headers' = headers
    /\ LET r == FinishHeaderProc(hp, q, FALSE) IN
         /\ hp' = r.hp
         /\ hlock' = r.lock
    /\ UNCHANGED <<server_len, on_header>>
    /\ UNCHANGED <<stop, historyVars, utxoVars, accountVars>>

\* the caller of a finished process_header is gone; the next notification
\* starts a new invocation
ProcessHeaderReturn(q) ==
    /\ q \in Handlers
    /\ hp[q].pc \in {"done", "failed"}
    /\ hp' = [hp EXCEPT ![q] = HIdle]
    /\ UNCHANGED <<headers, server_len, on_header, hlock>>
    /\ UNCHANGED <<stop, historyVars, utxoVars, accountVars>>

\* the network finds a new block
ServerNewBlock ==
    /\ server_len < MaxChain
    /\ server_len' = server_len + 1
    /\ UNCHANGED <<headers, on_header, hlock, hp>>
    /\ UNCHANGED <<stop, historyVars, utxoVars, accountVars>>

----------------------------------------------------------------------------
(***************************************************************************)
(* History synchronizer.                                                   *)
(***************************************************************************)
MaxHeight     == 3      \* remote heights are 0..MaxHeight
MaxHistory    == 2      \* a remote history has at most this many entries
SyncedHeaders == 3      \* the header store's length while histories are synced

SharedMaxHeight == 1    \* the remote heights when two addresses are synced at once

Addrs   == {"A", "B"}
UProcs  == {"u1", "u2"}
LockIds == 1..3
NoLock  == 0

\* the address each update_history coroutine works on
AddrOf(p) == IF p = "u1" THEN "A" ELSE "B"

Heights == 0..MaxHeight

Entry(t, h) == [tx_hash |-> t, height |-> h]

\* the histories a server can report: every transaction at most once
Histories ==
    {<<>>}
    \cup (IF MaxHistory >= 1
            THEN {<<Entry(t, h)>> : t \in TxIds, h \in Heights} ELSE {})
    \cup (IF MaxHistory >= 2
            THEN {<<Entry(e[1], e[2]), Entry(e[3], e[4])>> :
                    e \in {x \in TxIds \X Heights \X TxIds \X Heights : x[1] # x[3]}}
            ELSE {})

SharedHistories ==
    {H \in Histories : \A k \in 1..Len(H) : H[k].height <= SharedMaxHeight}

(* The address row's history column: a string, here a sequence of
   characters.  A txid is written as one character. *)
Digits == <<"0", "1", "2", "3", "4", "5", "6", "7", "8", "9">>

\* '{}'.format(n) for an integer n >= 0
RECURSIVE IntToStr(_)
IntToStr(n) == IF n < 10 THEN <<Digits[n + 1]>>
               ELSE IntToStr(n \div 10) \o <<Digits[(n % 10) + 1]>>

\* int(s) for a string of decimal digits
RECURSIVE StrToInt(_)
StrToInt(s) ==
    IF s = <<>> THEN 0
    ELSE StrToInt(SubSeq(s, 1, Len(s) - 1)) * 10
         + (CHOOSE d \in 0..9 : Digits[d + 1] = s[Len(s)])

TxStr(t) == <<t>>

\* ''.join('{}:{}:'.format(tx_id, tx_height) for tx_id, tx_height in synced_history)
RECURSIVE JoinHistory(_)
JoinHistory(synced) ==
    IF synced = <<>> THEN <<>>
    ELSE TxStr(Head(synced).tx_hash) \o <<":">> \o IntToStr(Head(synced).height) \o <<":">>
         \o JoinHistory(Tail(synced))

\* history.split(':')
RECURSIVE Split(_)
Split(s) ==
    IF \A k \in 1..Len(s) : s[k] # ":"
      THEN <<s>>
      ELSE LET k == CHOOSE j \in 1..Len(s) :
                      s[j] = ":" /\ \A m \in 1..(j - 1) : s[m] # ":"
           IN  <<SubSeq(s, 1, k - 1)>> \o Split(SubSeq(s, k + 1, Len(s)))

\* get_local_history: parts = history.split(':')[:-1];
\* list(zip(parts[0::2], map(int, parts[1::2])))
GetLocalHistory(history) ==
    LET all   == Split(history)
        parts == SubSeq(all, 1, Len(all) - 1)
        n     == Len(parts) \div 2
    IN  [k \in 1..n |-> <<parts[2 * k - 1], StrToInt(parts[2 * k])>>]

\* the test of line 297, for the entry at index i (from 0) of the remote history
AlreadySynced(local_history, remote_history, i) ==
    /\ i < Len(local_history)
    /\ local_history[i + 1]
         = <<TxStr(remote_history[i + 1].tx_hash), remote_history[i + 1].height>>

\* the index (from 0) of the first entry from i on that is not skipped, or
\* len(remote_history) when the loop runs to its end
RECURSIVE NextWork(_, _, _)
NextWork(local_history, remote_history, i) ==
    IF i >= Len(remote_history) THEN Len(remote_history)
    ELSE IF AlreadySynced(local_history, remote_history, i)
      THEN NextWork(local_history, remote_history, i + 1)
      ELSE i

(* The tx table: db.get_transaction(txid) gives (raw, height, is_verified),
   with raw None and is_verified false when there is no row.  The ledger
   never reads the row's height (line 307 drops it), so a row is modelled by
   whether it is there and its is_verified. *)
NoRow == [present |-> FALSE, is_verified |-> 0]

\* db.save_transaction_io(save_tx, tx, height, is_verified, ...) on the tx row
SaveTxRow(row, save_tx, is_verified) ==
    IF save_tx = "insert"
      THEN [present |-> TRUE, is_verified |-> is_verified]
    ELSE IF save_tx = "update"
      THEN [row EXCEPT !.is_verified = is_verified]
    ELSE row

(* update_history coroutines.
     pc           where the coroutine is suspended
     remote       remote_history
     local        local_history
     i            the index (from 0) of the entry in work
     lock         the lock object taken from the table for that entry
     present      raw is not None
     is_verified  is_verified (0 or 1)
     save_tx      save_tx ("none" for None)
     waited       this run had to wait for a lock
     fresh        the txids of remote_history without a tx row when it arrived
     repeat       the previous run completed and the server's history is as then
     retry        the txids the previous such run saved unverified at a height > 0
     unchanged    the server's history is as this run got it
     last_ok      the last run completed and the server's history is as then
     last_unver   the txids the last run saved unverified at a height > 0
     trigger      the method the coroutine is in: update_history (called
                  directly or from the other two), subscribe_history or
                  process_status
     remote_status, local_status   the two statuses of subscribe_history and
                  process_status (empty until they are known; they are not
                  read again once update_history is entered)
     asked        update_history was entered: get_history was requested        *)
UIdle == [pc |-> "idle", remote |-> <<>>, local |-> <<>>, i |-> 0, lock |-> NoLock,
          present |-> FALSE, is_verified |-> 0, save_tx |-> "none",
          waited |-> FALSE, fresh |-> {}, repeat |-> FALSE, retry |-> {}, unchanged |-> FALSE,
          last_ok |-> FALSE, last_unver |-> {},
          trigger |-> "update_history", remote_status |-> <<>>, local_status |-> <<>>,
          asked |-> FALSE]

InCritical(p) == uh[p].pc \in {"db_get_tx", "net_get_tx", "get_merkle", "save"}

\* hex_id and remote_height of the entry in work
HexId(u)        == u.remote[u.i + 1].tx_hash
RemoteHeight(u) == u.remote[u.i + 1].height

\* synced_history during the iteration on entry i
SyncedHistory(u) == SubSeq(u.remote, 1, u.i + 1)

\* an acquire() that never makes the caller wait
AcquiresAtOnce_NoExclusion(lock) == TRUE

\* DeferredLock.acquire(): does the caller get the lock at once?
AcquiresAtOnce(lock) == ~lock.locked

\* a lock object that nothing refers to, for setdefault's defer.DeferredLock()
NewLock(tl, f) ==
    CHOOSE l \in LockIds :
      /\ \A t \in TxIds : tl[t] # l
      /\ \A p \in UProcs : f[p].lock # l
      /\ \A m \in LockIds :
           ((\A t \in TxIds : tl[t] # m) /\ (\A p \in UProcs : f[p].lock # m)) => l <= m

\* The for loop from index i up to its next suspension: skip the entries that
\* are already synced; for the first that is not, take its lock from the table
\* (setdefault) and acquire it, then ask the database for the transaction.
LoopFrom(f, tl, lk, p, i) ==
    LET j == NextWork(f[p].local, f[p].remote, i) IN
    IF j >= Len(f[p].remote)
      THEN [uh |-> [f EXCEPT ![p].pc = "done", ![p].i = j, ![p].lock = NoLock,
                             ![p].last_ok = f[p].unchanged],
            tx_locks |-> tl, locks |-> lk]
      ELSE LET hex_id == f[p].remote[j + 1].tx_hash
               l   == IF tl[hex_id] # NoLock THEN tl[hex_id] ELSE NewLock(tl, f)
               tl2 == [tl EXCEPT ![hex_id] = l]
               g   == [f EXCEPT ![p].i = j, ![p].lock = l, ![p].present = FALSE,
                                ![p].is_verified = 0, ![p].save_tx = "none"]
           IN  IF AcquiresAtOnce(lk[l])
                 THEN [uh |-> [g EXCEPT ![p].pc = "db_get_tx"],
                       tx_locks |-> tl2,
                       locks |-> [lk EXCEPT ![l].locked = TRUE]]
                 ELSE [uh |-> [g EXCEPT ![p].pc = "wait_lock", ![p].waited = TRUE],
                       tx_locks |-> tl2,
                       locks |-> [lk EXCEPT ![l].waiting = Append(@, p)]]

\* a finally that releases the lock and leaves its entry in the table
ReleaseTxLock_KeepsEntry(f, tl, lk, p) ==
    LET l   == f[p].lock
        lk2 == IF lk[l].waiting = <<>>
                 THEN [lk EXCEPT ![l].locked = FALSE]
                 ELSE [lk EXCEPT ![l].locked = TRUE, ![l].waiting = Tail(@)]
        f2  == IF lk[l].waiting = <<>>
                 THEN f
                 ELSE [f EXCEPT ![Head(lk[l].waiting)].pc = "db_get_tx"]
    IN  [uh |-> [f2 EXCEPT ![p].lock = NoLock], tx_locks |-> tl, locks |-> lk2]

\* finally: lock.release(), which hands the lock to the first waiter (it then
\* asks the database for the transaction); then the entry is deleted from the
\* table if the lock is not locked
ReleaseTxLock(f, tl, lk, p) ==
    LET l      == f[p].lock
        hex_id == HexId(f[p])
        lk2 == IF lk[l].waiting = <<>>
                 THEN [lk EXCEPT ![l].locked = FALSE]
                 ELSE [lk EXCEPT ![l].locked = TRUE, ![l].waiting = Tail(@)]
        f2  == IF lk[l].waiting = <<>>
                 THEN f
                 ELSE [f EXCEPT ![Head(lk[l].waiting)].pc = "db_get_tx"]
        tl2 == IF ~lk2[l].locked /\ tl[hex_id] # NoLock
                 THEN [tl EXCEPT ![hex_id] = NoLock]
                 ELSE tl
    IN  [uh |-> [f2 EXCEPT ![p].lock = NoLock], tx_locks |-> tl2, locks |-> lk2]

\* does update_history verify the transaction it holds? (line 316)
NeedsVerification(remote_height, is_verified) == remote_height > 0 /\ is_verified = 0

\* the guard of is_valid_transaction (line 212): may verification proceed?
HeightKnown(height, hdrs) == height <= HeadersLen(hdrs)

\* save_tx after a verification (lines 319-320)
SaveTxAfterVerify(save_tx) == IF save_tx = "none" THEN "update" ELSE save_tx

\* update_history once it holds tx: verify if needed, then save_transaction_io
AfterTransaction(u, present, is_verified, save_tx) ==
    LET v == [u EXCEPT !.present = present, !.is_verified = is_verified,
                       !.save_tx = save_tx]
    IN  IF NeedsVerification(RemoteHeight(u), is_verified)
          THEN IF HeightKnown(RemoteHeight(u), headers)
                 THEN [v EXCEPT !.pc = "get_merkle"]
                 ELSE [v EXCEPT !.pc = "save", !.is_verified = 0,
                                !.save_tx = SaveTxAfterVerify(save_tx)]
          ELSE [v EXCEPT !.pc = "save"]

\* TransactionEvent(address, tx, remote_height, is_verified) of line 332 (the
\* address is the one of the stream's index)
TransactionEventOf(u) ==
    [tx |-> HexId(u), height |-> RemoteHeight(u), is_verified |-> u.is_verified]

\* an except block that publishes the event of the failed iteration
EventsAfterFailure_Publishes(events, u) == Append(events, TransactionEventOf(u))

\* except Exception: log.exception(...); raise (lines 334-336): what the run
\* has published stays as it is
EventsAfterFailure(events, u) == events

MerkleAsked(u) == IF u.pc = "get_merkle" THEN {<<HexId(u), RemoteHeight(u)>>} ELSE {}

----------------------------------------------------------------------------
\* update_history(address): yield self.network.get_history(address)
UpdateHistory(p) ==
    /\ uh[p].pc = "idle"
    /\ uh' = [uh EXCEPT ![p].pc = "get_history", ![p].asked = TRUE]
    /\ on_transaction' = [on_transaction EXCEPT ![p] = <<>>]
    /\ saves' = [saves EXCEPT ![p] = <<>>]
    /\ merkle_calls' = [merkle_calls EXCEPT ![p] = {}]
    /\ UNCHANGED <<remote, db_tx, db_history, tx_locks, locks, inserts>>
    /\ UNCHANGED <<headerVars, utxoVars, accountVars>>

\* get_history answered: yield self.get_local_history(address)
GetHistoryDone(p) ==
    /\ uh[p].pc = "get_history"
    /\ LET H == remote[AddrOf(p)] IN
       uh' = [uh EXCEPT ![p].pc = "get_local",
                        ![p].remote = H,
                        ![p].fresh = {H[k].tx_hash : k \in {m \in 1..Len(H) :
                                                       ~db_tx[H[m].tx_hash].present}},
                        ![p].repeat = uh[p].last_ok,
                        ![p].retry = IF uh[p].last_ok THEN uh[p].last_unver ELSE {},
                        ![p].last_unver = {},
                        ![p].unchanged = TRUE]
    /\ UNCHANGED <<remote, db_tx, db_history, tx_locks, locks, on_transaction, saves,
                   merkle_calls, inserts>>
    /\ UNCHANGED <<headerVars, utxoVars, accountVars>>

\* get_local_history answered: the loop runs up to its first suspension
GetLocalHistoryDone(p) ==
    /\ uh[p].pc = "get_local"
    /\ LET f == [uh EXCEPT ![p].local = GetLocalHistory(db_history[AddrOf(p)])]
           r == LoopFrom(f, tx_locks, locks, p, 0)
       IN  /\ uh' = r.uh
           /\ tx_locks' = r.tx_locks
           /\ locks' = r.locks
    /\ UNCHANGED <<remote, db_tx, db_history, on_transaction, saves, merkle_calls, inserts>>
    /\ UNCHANGED <<headerVars, utxoVars, accountVars>>

\* db.get_transaction answered: fetch the transaction if there is no row
DbGetTransactionDone(p) ==
    /\ uh[p].pc = "db_get_tx"
    /\ LET row == db_tx[HexId(uh[p])] IN
       IF ~row.present
         THEN /\ uh' = [uh EXCEPT ![p].pc = "net_get_tx", ![p].present = FALSE,
                                  ![p].is_verified = row.is_verified]
              /\ merkle_calls' = merkle_calls
         ELSE LET v == AfterTransaction(uh[p], TRUE, row.is_verified, "none") IN
              /\ uh' = [uh EXCEPT ![p] = v]
              /\ merkle_calls' = [merkle_calls EXCEPT ![p] = @ \cup MerkleAsked(v)]
    /\ UNCHANGED <<remote, db_tx, db_history, tx_locks, locks, on_transaction, saves, inserts>>
    /\ UNCHANGED <<headerVars, utxoVars, accountVars>>

\* network.get_transaction answered: save_tx = 'insert'
NetGetTransactionDone(p) ==
    /\ uh[p].pc = "net_get_tx"
    /\ LET v == AfterTransaction(uh[p], FALSE, uh[p].is_verified, "insert") IN
         /\ uh' = [uh EXCEPT ![p] = v]
         /\ merkle_calls' = [merkle_calls EXCEPT ![p] = @ \cup MerkleAsked(v)]
    /\ UNCHANGED <<remote, db_tx, db_history, tx_locks, locks, on_transaction, saves, inserts>>
    /\ UNCHANGED <<headerVars, utxoVars, accountVars>>

\* network.get_merkle answered and the header at that height is there
GetMerkleDone(p) ==
    /\ uh[p].pc = "get_merkle"
    /\ RemoteHeight(uh[p]) < HeadersLen(headers)
    /\ LET u      == uh[p]
           merkle == GetMerkle(HexId(u), RemoteHeight(u))
           merkle_root == GetRootOfMerkleTree(merkle.merkle, merkle.pos, TxHash(HexId(u)))
           header == headers[RemoteHeight(u) + 1]
       IN  uh' = [uh EXCEPT ![p].pc = "save",
                            ![p].is_verified = IF merkle_root = header THEN 1 ELSE 0,
                            ![p].save_tx = SaveTxAfterVerify(u.save_tx)]
    /\ UNCHANGED <<remote, db_tx, db_history, tx_locks, locks, on_transaction, saves,
                   merkle_calls, inserts>>
    /\ UNCHANGED <<headerVars, utxoVars, accountVars>>

\* save_transaction_io done: publish the event, release the lock, go on
SaveTransactionIoDone(p) ==
    /\ uh[p].pc = "save"
    /\ LET u      == uh[p]
           hex_id == HexId(u)
           call   == [save_tx |-> u.save_tx, tx |-> hex_id, height |-> RemoteHeight(u),
                      is_verified |-> u.is_verified]
           f == [uh EXCEPT ![p].last_unver =
                   IF RemoteHeight(u) > 0 /\ u.is_verified = 0
                     THEN @ \cup {hex_id} ELSE @ \ {hex_id}]
           r == ReleaseTxLock(f, tx_locks, locks, p)
           s == LoopFrom(r.uh, r.tx_locks, r.locks, p, u.i + 1)
       IN  /\ db_tx' = [db_tx EXCEPT ![hex_id] =
                          SaveTxRow(@, u.save_tx, u.is_verified)]
           /\ db_history' = [db_history EXCEPT ![AddrOf(p)] = JoinHistory(SyncedHistory(u))]
           /\ inserts' = [inserts EXCEPT ![hex_id] =
                            IF u.save_tx = "insert" THEN @ + 1 ELSE @]
           /\ saves' = [saves EXCEPT ![p] = Append(@, call)]
           /\ on_transaction' = [on_transaction EXCEPT ![p] =
                                    Append(@, TransactionEventOf(u))]
           /\ uh' = s.uh
           /\ tx_locks' = s.tx_locks
           /\ locks' = s.locks
    /\ UNCHANGED <<remote, merkle_calls>>
    /\ UNCHANGED <<headerVars, utxoVars, accountVars>>

\* a request inside the critical section fails (network or database error, or
\* no header at the height): log, re-raise, release the lock in finally
UpdateHistoryFails(p) ==
    /\ InCritical(p)
    /\ LET r == ReleaseTxLock([uh EXCEPT ![p].pc = "failed", ![p].last_ok = FALSE,
                                         ![p].last_unver = {}],
                              tx_locks, locks, p)
       IN  /\ uh' = r.uh
           /\ tx_locks' = r.tx_locks
           /\ locks' = r.locks
    /\ on_transaction' = [on_transaction EXCEPT ![p] = EventsAfterFailure(@, uh[p])]
    /\ UNCHANGED <<remote, db_tx, db_history, saves, merkle_calls, inserts>>
    /\ UNCHANGED <<headerVars, utxoVars, accountVars>>

\* the caller takes the result; the coroutine can be called again
UpdateHistoryReturn(p) ==
    /\ uh[p].pc \in {"done", "failed"}
    /\ uh' = [uh EXCEPT ![p] = [UIdle EXCEPT !.last_ok = uh[p].last_ok,
                                             !.last_unver = uh[p].last_unver]]
    /\ UNCHANGED <<remote, db_tx, db_history, tx_locks, locks, on_transaction, saves,
                   merkle_calls, inserts>>
    /\ UNCHANGED <<headerVars, utxoVars, accountVars>>

\* the server's history of an address changes (new transaction, confirmation,
\* reorganisation).  A run reads it once, when get_history is answered: a
\* change later in the run is a change after the run.
ServerHistoryChanges(a) ==
    /\ \A p \in UProcs : AddrOf(p) = a => uh[p].pc \in {"idle", "get_history"}
    /\ \E H \in Histories :
         /\ H # remote[a]
         /\ remote' = [remote EXCEPT ![a] = H]
    /\ uh' = [p \in UProcs |->
                IF AddrOf(p) = a
                  THEN [uh[p] EXCEPT !.unchanged = FALSE, !.last_ok = FALSE]
                  ELSE uh[p]]
    /\ UNCHANGED <<db_tx, db_history, tx_locks, locks, on_transaction, saves,
                   merkle_calls, inserts>>
    /\ UNCHANGED <<headerVars, utxoVars, accountVars>>

----------------------------------------------------------------------------
(* get_local_status, subscribe_history and process_status *)

\* the characters of a history string, for history.encode()
Alphabet == <<":", "0", "1", "2", "3", "4", "5", "6", "7", "8", "9", "t1", "t2">>

CharCode(c) == CHOOSE k \in 1..Len(Alphabet) : Alphabet[k] = c

\* history.encode(): the string's bytes
Encode(history) == [k \in 1..Len(history) |-> CharCode(history[k])]

\* torba.hash.sha256: like double_sha256 above, a mixing function from any
\* byte string to two bytes
Sha256(bytes) == LET m == Mix(bytes, 11) IN <<m % 4, m \div 4>>

\* binascii.hexlify: one digit per byte here
Hexlify(bytes) == [k \in 1..Len(bytes) |-> Digits[bytes[k] + 1]]

\* get_local_status(address), from the address row's history column
GetLocalStatus(history) == Hexlify(Sha256(Encode(history)))

\* the status the server computes for a history: the same digest of the same
\* string
ServerStatus(H) == GetLocalStatus(JoinHistory(H))

\* an update_history that is started whatever the statuses are
StartsUpdateHistory_Always(local_status, remote_status) == TRUE

\* if local_status != remote_status: yield self.update_history(address)
StartsUpdateHistory(local_status, remote_status) == local_status # remote_status

\* subscribe_history(address): yield self.network.subscribe_address(address)
SubscribeHistory(p) ==
    /\ uh[p].pc = "idle"
    /\ uh' = [uh EXCEPT ![p].pc = "subscribe_address", ![p].trigger = "subscribe_history"]
    /\ on_transaction' = [on_transaction EXCEPT ![p] = <<>>]
    /\ saves' = [saves EXCEPT ![p] = <<>>]
    /\ merkle_calls' = [merkle_calls EXCEPT ![p] = {}]
    /\ UNCHANGED <<remote, db_tx, db_history, tx_locks, locks, inserts>>
    /\ UNCHANGED <<headerVars, utxoVars, accountVars>>

\* subscribe_address answered with the address's status: get_local_status
\* asks the database for the address
SubscribeAddressDone(p) ==
    /\ uh[p].pc = "subscribe_address"
    /\ uh' = [uh EXCEPT ![p].pc = "get_local_status",
                        ![p].remote_status = ServerStatus(remote[AddrOf(p)])]
    /\ UNCHANGED <<remote, db_tx, db_history, tx_locks, locks, on_transaction, saves,
                   merkle_calls, inserts>>
    /\ UNCHANGED <<headerVars, utxoVars, accountVars>>

\* a notification with the address's status arrives: process_status(response)
\* asks the database for the address
ProcessStatus(p) ==
    /\ uh[p].pc = "idle"
    /\ uh' = [uh EXCEPT ![p].pc = "get_local_status", ![p].trigger = "process_status",
                        ![p].remote_status = ServerStatus(remote[AddrOf(p)])]
    /\ on_transaction' = [on_transaction EXCEPT ![p] = <<>>]
    /\ saves' = [saves EXCEPT ![p] = <<>>]
    /\ merkle_calls' = [merkle_calls EXCEPT ![p] = {}]
    /\ UNCHANGED <<remote, db_tx, db_history, tx_locks, locks, inserts>>
    /\ UNCHANGED <<headerVars, utxoVars, accountVars>>

\* get_local_status answered: if the statuses differ update_history is
\* entered, up to its get_history request; otherwise the method returns
GetLocalStatusDone(p) ==
    /\ uh[p].pc = "get_local_status"
    /\ LET local_status == GetLocalStatus(db_history[AddrOf(p)]) IN
       IF StartsUpdateHistory(local_status, uh[p].remote_status)
         THEN uh' = [uh EXCEPT ![p].pc = "get_history", ![p].asked = TRUE,
                               ![p].trigger = "update_history",
                               ![p].remote_status = <<>>]
         ELSE uh' = [uh EXCEPT ![p].pc = "done", ![p].local_status = local_status]
    /\ UNCHANGED <<remote, db_tx, db_history, tx_locks, locks, on_transaction, saves,
                   merkle_calls, inserts>>
    /\ UNCHANGED <<headerVars, utxoVars, accountVars>>

----------------------------------------------------------------------------
(***************************************************************************)
(* UTXO reservation gate.                                                  *)
(***************************************************************************)
MaxAmount == 3      \* the amounts asked for are 1..MaxAmount

Utxos    == {"o1", "o2"}
Accounts == {"X", "Y"}
GProcs   == {"g1", "g2"}

\* the account each output belongs to, and its effective amount
OwnerOf(o)         == IF o = "o1" THEN "X" ELSE "Y"
EffectiveAmount(o) == IF o = "o1" THEN 2 ELSE 1

\* the funding_accounts a caller may pass
FundingChoices == {<<"X">>, <<"X", "Y">>}

RECURSIVE SumAmounts(_)
SumAmounts(S) ==
    IF S = {} THEN 0
    ELSE LET o == CHOOSE x \in S : TRUE IN EffectiveAmount(o) + SumAmounts(S \ {o})

\* account.get_unspent_outputs(): the account's outputs that are neither spent
\* nor reserved
GetUnspentOutputs(account, res, spt) ==
    {o \in Utxos : OwnerOf(o) = account /\ o \notin res /\ o \notin spt}

\* CoinSelector(txos, amount, ...).select(): outputs that cover the amount, or
\* nothing if txos cannot cover it
Selections(txos, amount) ==
    IF SumAmounts(txos) < amount
      THEN {{}}
      ELSE {S \in SUBSET txos : S # {} /\ SumAmounts(S) >= amount}

(* get_spendable_utxos coroutines.
     pc        where the coroutine is suspended
     amount    amount
     accounts  funding_accounts
     k         the index (from 1) of the account whose outputs are awaited
     txos      the outputs gathered by get_effective_amount_estimators
     selected  spendables
     result    the outputs the call returned (held by the caller)
     waited    the call had to wait for the lock                              *)
GIdle == [pc |-> "idle", amount |-> 0, accounts |-> <<>>, k |-> 0, txos |-> {},
          selected |-> {}, result |-> {}, waited |-> FALSE]

\* an acquire() that never makes the caller wait
UtxoLockFree_NoExclusion(lock) == TRUE

\* _utxo_reservation_lock.acquire(): does the caller get the lock at once?
UtxoLockFree(lock) == ~lock.locked

\* a get_spendable_utxos without the finally of lines 174-175
ReleaseUtxoLock_Skipped(f, lock) == [gs |-> f, lock |-> lock]

\* _utxo_reservation_lock.release(): the first waiter gets the lock and asks
\* for the outputs of its first funding account
ReleaseUtxoLock(f, lock) ==
    IF lock.waiting = <<>>
      THEN [gs |-> f, lock |-> FreeLock]
      ELSE [gs |-> [f EXCEPT ![Head(lock.waiting)].pc = "collect",
                             ![Head(lock.waiting)].k = 1],
            lock |-> [locked |-> TRUE, waiting |-> Tail(lock.waiting)]]

\* get_spendable_utxos(amount, funding_accounts): acquire the lock
GetSpendableUtxos(g) ==
    /\ gs[g].pc = "idle"
    /\ \E amount \in 1..MaxAmount, accounts \in FundingChoices :
         LET f == [gs EXCEPT ![g].amount = amount, ![g].accounts = accounts] IN
         IF UtxoLockFree(ulock)
           THEN /\ gs' = [f EXCEPT ![g].pc = "collect", ![g].k = 1]
                /\ ulock' = [ulock EXCEPT !.locked = TRUE]
           ELSE /\ gs' = [f EXCEPT ![g].pc = "wait", ![g].waited = TRUE]
                /\ ulock' = [ulock EXCEPT !.waiting = Append(@, g)]
    /\ UNCHANGED <<reserved, spent>>
    /\ UNCHANGED <<headerVars, historyVars, accountVars>>

\* get_unspent_outputs of account k answered: next account, or select and,
\* if anything was selected, reserve
CollectDone(g) ==
    /\ gs[g].pc = "collect"
    /\ LET u    == gs[g]
           txos == u.txos \cup GetUnspentOutputs(u.accounts[u.k], reserved, spent)
       IN  IF u.k < Len(u.accounts)
             THEN /\ gs' = [gs EXCEPT ![g].txos = txos, ![g].k = u.k + 1]
                  /\ ulock' = ulock
             ELSE \E spendables \in Selections(txos, u.amount) :
                    IF spendables # {}
                      THEN /\ gs' = [gs EXCEPT ![g].pc = "reserve", ![g].txos = txos,
                                               ![g].selected = spendables]
                           /\ ulock' = ulock
                      ELSE LET r == ReleaseUtxoLock(
                                      [gs EXCEPT ![g].pc = "done", ![g].txos = txos,
                                                 ![g].result = {}], ulock)
                           IN  /\ gs' = r.gs
                               /\ ulock' = r.lock
    /\ UNCHANGED <<reserved, spent>>
    /\ UNCHANGED <<headerVars, historyVars, accountVars>>

\* db.reserve_outputs done: release the lock, return the spendables
ReserveDone(g) ==
    /\ gs[g].pc = "reserve"
    /\ reserved' = reserved \cup gs[g].selected
    /\ LET r == ReleaseUtxoLock([gs EXCEPT ![g].pc = "done",
                                           ![g].result = gs[g].selected], ulock)
       IN  /\ gs' = r.gs
           /\ ulock' = r.lock
    /\ UNCHANGED spent
    /\ UNCHANGED <<headerVars, historyVars, accountVars>>

\* a database call inside the critical section fails: log, re-raise, release
GetSpendableUtxosFails(g) ==
    /\ gs[g].pc \in {"collect", "reserve"}
    /\ LET r == ReleaseUtxoLock([gs EXCEPT ![g].pc = "failed", ![g].result = {}], ulock)
       IN  /\ gs' = r.gs
           /\ ulock' = r.lock
    /\ UNCHANGED <<reserved, spent>>
    /\ UNCHANGED <<headerVars, historyVars, accountVars>>

\* the caller gives the outputs back: ledger.release_outputs(txos)
ReleaseOutputs(g) ==
    /\ gs[g].pc = "done"
    /\ reserved' = reserved \ gs[g].result
    /\ gs' = [gs EXCEPT ![g] = GIdle]
    /\ UNCHANGED <<ulock, spent>>
    /\ UNCHANGED <<headerVars, historyVars, accountVars>>

\* the caller's transaction spends the outputs
SpendOutputs(g) ==
    /\ gs[g].pc = "done"
    /\ gs[g].result # {}
    /\ spent' = spent \cup gs[g].result
    /\ gs' = [gs EXCEPT ![g] = GIdle]
    /\ UNCHANGED <<ulock, reserved>>
    /\ UNCHANGED <<headerVars, historyVars, accountVars>>

\* the caller of a failed call goes on
GetSpendableUtxosReturn(g) ==
    /\ gs[g].pc = "failed"
    /\ gs' = [gs EXCEPT ![g] = GIdle]
    /\ UNCHANGED <<ulock, reserved, spent>>
    /\ UNCHANGED <<headerVars, historyVars, accountVars>>

----------------------------------------------------------------------------
(***************************************************************************)
(* Account restore: update_account.  The account is one chain of           *)
(* addresses 1..n, generated in order; an address is used once a           *)
(* transaction of its history is stored.                                   *)
(***************************************************************************)
Gap            == 2     \* the unused addresses an account keeps at the end of its chain
MaxUsedAddress == 2     \* the server has histories for addresses up to this one

ChainAddresses == 1..(MaxUsedAddress + Gap)

NewAccount == [n |-> 0, used |-> {}]

\* the last used address of the chain, 0 if there is none
LastUsed(acc) ==
    IF acc.used = {} THEN 0 ELSE CHOOSE a \in acc.used : \A b \in acc.used : b <= a

\* account.ensure_address_gap(): the addresses it generates, those missing
\* for Gap unused addresses after the last used one
EnsureAddressGap(acc) ==
    IF acc.n - LastUsed(acc) < Gap
      THEN (acc.n + 1)..(LastUsed(acc) + Gap)
      ELSE {}

\* account.get_addresses(max_used_times=0) and account.get_addresses()
GetUnusedAddresses(acc) == {a \in 1..acc.n : a \notin acc.used}
GetAddresses(acc)       == 1..acc.n

(* The update_account coroutine.
     pc          where the coroutine is suspended
     addresses   addresses
     running     the update_history calls of the DeferredList not yet done
     started     the addresses update_history was started for in the gap-fill
     ensured     the results of the ensure_address_gap calls, in order
     subscribed  the addresses network.subscribe_address was called with
     pending     the subscribe_history calls of the DeferredList not yet done *)
AIdle == [pc |-> "idle", addresses |-> {}, running |-> {}, started |-> {},
          ensured |-> <<>>, subscribed |-> {}, pending |-> {}]

\* a loop that is never entered
LoopContinues_Never(addresses) == FALSE

\* while addresses:
LoopContinues(addresses) == addresses # {}

\* the while test with the given addresses, up to the next suspension: the
\* DeferredList of update_history calls, or get_addresses() after the loop
WhileAddresses(u, addresses) ==
    IF LoopContinues(addresses)
      THEN [u EXCEPT !.pc = "gap_runs", !.addresses = addresses,
                     !.running = addresses, !.started = @ \cup addresses]
      ELSE [u EXCEPT !.pc = "get_all", !.addresses = addresses]

\* update_account(account): yield account.ensure_address_gap()
UpdateAccount ==
    /\ ua.pc = "idle"
    /\ ua' = [ua EXCEPT !.pc = "ensure_first"]
    /\ UNCHANGED <<chain, server_used>>
    /\ UNCHANGED <<headerVars, historyVars, utxoVars>>

\* the first ensure_address_gap() done (its result is dropped):
\* yield account.get_addresses(max_used_times=0)
EnsureFirstDone ==
    /\ ua.pc = "ensure_first"
    /\ LET new == EnsureAddressGap(chain) IN
         /\ chain' = [chain EXCEPT !.n = @ + Cardinality(new)]
         /\ ua' = [ua EXCEPT !.pc = "get_unused", !.ensured = Append(@, new)]
    /\ UNCHANGED server_used
    /\ UNCHANGED <<headerVars, historyVars, utxoVars>>

\* get_addresses(max_used_times=0) done: the while test
GetUnusedDone ==
    /\ ua.pc = "get_unused"
    /\ ua' = WhileAddresses(ua, GetUnusedAddresses(chain))
    /\ UNCHANGED <<chain, server_used>>
    /\ UNCHANGED <<headerVars, historyVars, utxoVars>>

\* the DeferredList fires when its last call is done:
\* addresses = yield account.ensure_address_gap()
AfterGapRun(u, a) ==
    IF u.running = {a}
      THEN [u EXCEPT !.pc = "ensure_loop", !.running = {}]
      ELSE [u EXCEPT !.running = @ \ {a}]

\* an update_history of the gap-fill runs to its end: the address is used if
\* the server had transactions for it
GapUpdateHistoryDone(a) ==
    /\ ua.pc = "gap_runs"
    /\ a \in ua.running
    /\ chain' = [chain EXCEPT !.used = IF a \in server_used THEN @ \cup {a} ELSE @]
    /\ ua' = AfterGapRun(ua, a)
    /\ UNCHANGED server_used
    /\ UNCHANGED <<headerVars, historyVars, utxoVars>>

\* an update_history of the gap-fill ends with an error, which the
\* DeferredList keeps as that call's result
GapUpdateHistoryFails(a) ==
    /\ ua.pc = "gap_runs"
    /\ a \in ua.running
    /\ ua' = AfterGapRun(ua, a)
    /\ UNCHANGED <<chain, server_used>>
    /\ UNCHANGED <<headerVars, historyVars, utxoVars>>

\* ensure_address_gap() of line 278 done: the while test
EnsureLoopDone ==
    /\ ua.pc = "ensure_loop"
    /\ LET new == EnsureAddressGap(chain) IN
         /\ chain' = [chain EXCEPT !.n = @ + Cardinality(new)]
         /\ ua' = WhileAddresses([ua EXCEPT !.ensured = Append(@, new)], new)
    /\ UNCHANGED server_used
    /\ UNCHANGED <<headerVars, historyVars, utxoVars>>

\* get_addresses() done: list(map(self.subscribe_history, all_addresses))
\* runs every subscribe_history up to its subscribe_address request
GetAllAddressesDone ==
    /\ ua.pc = "get_all"
    /\ LET all_addresses == GetAddresses(chain) IN
       ua' = IF all_addresses = {}
               THEN [ua EXCEPT !.pc = "done"]
               ELSE [ua EXCEPT !.pc = "subscribing", !.subscribed = all_addresses,
                               !.pending = all_addresses]
    /\ UNCHANGED <<chain, server_used>>
    /\ UNCHANGED <<headerVars, historyVars, utxoVars>>

\* a subscribe_history of the last DeferredList is done, with the
\* update_history it ran if the statuses differed, or with an error
SubscribeHistoryDone(a) ==
    /\ ua.pc = "subscribing"
    /\ a \in ua.pending
    /\ \E ok \in BOOLEAN :
         chain' = [chain EXCEPT
                       !.used = IF ok /\ a \in server_used THEN @ \cup {a} ELSE @]
    /\ ua' = IF ua.pending = {a}
               THEN [ua EXCEPT !.pc = "done", !.pending = {}]
               ELSE [ua EXCEPT !.pending = @ \ {a}]
    /\ UNCHANGED server_used
    /\ UNCHANGED <<headerVars, historyVars, utxoVars>>

\* update_account has returned; it is called again when the ledger is
\* started the next time
UpdateAccountReturn ==
    /\ ua.pc = "done"
    /\ ua' = AIdle
    /\ UNCHANGED <<chain, server_used>>
    /\ UNCHANGED <<headerVars, historyVars, utxoVars>>

\* an address of the chain receives its first transaction
ServerAddressUsed ==
    /\ \E a \in 1..MaxUsedAddress :
         /\ a \notin server_used
         /\ server_used' = server_used \cup {a}
    /\ UNCHANGED <<chain, ua>>
    /\ UNCHANGED <<headerVars, historyVars, utxoVars>>

----------------------------------------------------------------------------
(***************************************************************************)
(* Specifications.                                                         *)
(***************************************************************************)
\* the state after BaseLedger.__init__, for each group of variables
HeadersInit ==
    [headers |-> <<>>, server_len |-> 1, on_header |-> <<>>, hlock |-> FreeLock,
     hp |-> [w \in HProcs |-> HIdle]]

\* the header sync once start() has caught up with a chain of SyncedHeaders
HeadersSynced ==
    [headers |-> ServerHeaders(0, SyncedHeaders), server_len |-> SyncedHeaders,
     on_header |-> <<SyncedHeaders - 1>>, hlock |-> FreeLock,
     hp |-> [w \in HProcs |-> IF w = "start" THEN [HIdle EXCEPT !.pc = "done"] ELSE HIdle]]

InitHeaders ==
    /\ headers = HeadersInit.headers
    /\ server_len = HeadersInit.server_len
    /\ on_header = HeadersInit.on_header
    /\ hlock = HeadersInit.hlock
    /\ hp = HeadersInit.hp
    /\ stop = "idle"
    /\ remote = [a \in Addrs |-> <<>>]
    /\ db_tx = [t \in TxIds |-> NoRow]
    /\ db_history = [a \in Addrs |-> <<>>]
    /\ tx_locks = [t \in TxIds |-> NoLock]
    /\ locks = [l \in LockIds |-> FreeLock]
    /\ uh = [p \in UProcs |-> UIdle]
    /\ on_transaction = [p \in UProcs |-> <<>>]
    /\ saves = [p \in UProcs |-> <<>>]
    /\ merkle_calls = [p \in UProcs |-> {}]
    /\ inserts = [t \in TxIds |-> 0]
    /\ ulock = FreeLock
    /\ reserved = {}
    /\ spent = {}
    /\ gs = [g \in GProcs |-> GIdle]
    /\ chain = NewAccount
    /\ server_used = {}
    /\ ua = AIdle

InitHistory ==
    /\ headers = HeadersSynced.headers
    /\ server_len = HeadersSynced.server_len
    /\ on_header = HeadersSynced.on_header
    /\ hlock = HeadersSynced.hlock
    /\ hp = HeadersSynced.hp
    /\ stop = "idle"
    /\ remote = [a \in Addrs |-> <<>>]
    /\ db_tx = [t \in TxIds |-> NoRow]
    /\ db_history = [a \in Addrs |-> <<>>]
    /\ tx_locks = [t \in TxIds |-> NoLock]
    /\ locks = [l \in LockIds |-> FreeLock]
    /\ uh = [p \in UProcs |-> UIdle]
    /\ on_transaction = [p \in UProcs |-> <<>>]
    /\ saves = [p \in UProcs |-> <<>>]
    /\ merkle_calls = [p \in UProcs |-> {}]
    /\ inserts = [t \in TxIds |-> 0]
    /\ ulock = FreeLock
    /\ reserved = {}
    /\ spent = {}
    /\ gs = [g \in GProcs |-> GIdle]
    /\ chain = NewAccount
    /\ server_used = {}
    /\ ua = AIdle

\* ---- header sync
StartStep ==
    \/ StartBegin
    \/ StartDbStarted
    \/ StartConnected
    \/ StartSubscribed
    \/ StartAccountsUpdated

NextHeaders ==
    \/ StartStep
    \/ Stop
    \/ StopCallDone
    \/ \E w \in HProcs : GetHeadersResponse(w)
    \/ \E w \in HProcs : BulkConnectDone(w)
    \/ \E q \in Handlers : ProcessHeader(q)
    \/ \E q \in Handlers : PushConnectDone(q)
    \/ \E q \in Handlers : ProcessHeaderFails(q)
    \/ \E q \in Handlers : ProcessHeaderReturn(q)
    \/ ServerNewBlock

SpecHeaders == InitHeaders /\ [][NextHeaders]_vars

\* the header sync against a server that answers every get_headers request and
\* a header store that completes every connect
SpecHeadersLive ==
    /\ SpecHeaders
    /\ \A w \in HProcs : WF_vars(GetHeadersResponse(w))
    /\ \A w \in HProcs : WF_vars(BulkConnectDone(w))

\* ---- history sync of one address against a server whose history changes
HistoryStep(p) ==
    \/ UpdateHistory(p)
    \/ GetHistoryDone(p)
    \/ GetLocalHistoryDone(p)
    \/ DbGetTransactionDone(p)
    \/ NetGetTransactionDone(p)
    \/ GetMerkleDone(p)
    \/ SaveTransactionIoDone(p)
    \/ UpdateHistoryFails(p)
    \/ UpdateHistoryReturn(p)

NextHistory ==
    \/ HistoryStep("u1")
    \/ ServerHistoryChanges("A")

SpecHistory == InitHistory /\ [][NextHistory]_vars

\* ---- history sync of one address started by update_history itself, by
\* subscribe_history or by a status notification
StatusStep(p) ==
    \/ SubscribeHistory(p)
    \/ SubscribeAddressDone(p)
    \/ ProcessStatus(p)
    \/ GetLocalStatusDone(p)

NextStatus ==
    \/ StatusStep("u1")
    \/ HistoryStep("u1")
    \/ ServerHistoryChanges("A")

SpecStatus == InitHistory /\ [][NextStatus]_vars

\* ---- history sync of two addresses at once, against any pair of server
\* histories with heights up to SharedMaxHeight
InitShared ==
    /\ headers = HeadersSynced.headers
    /\ server_len = HeadersSynced.server_len
    /\ on_header = HeadersSynced.on_header
    /\ hlock = HeadersSynced.hlock
    /\ hp = HeadersSynced.hp
    /\ stop = "idle"
    /\ remote \in [Addrs -> SharedHistories]
    /\ db_tx = [t \in TxIds |-> NoRow]
    /\ db_history = [a \in Addrs |-> <<>>]
    /\ tx_locks = [t \in TxIds |-> NoLock]
    /\ locks = [l \in LockIds |-> FreeLock]
    /\ uh = [p \in UProcs |-> UIdle]
    /\ on_transaction = [p \in UProcs |-> <<>>]
    /\ saves = [p \in UProcs |-> <<>>]
    /\ merkle_calls = [p \in UProcs |-> {}]
    /\ inserts = [t \in TxIds |-> 0]
    /\ ulock = FreeLock
    /\ reserved = {}
    /\ spent = {}
    /\ gs = [g \in GProcs |-> GIdle]
    /\ chain = NewAccount
    /\ server_used = {}
    /\ ua = AIdle

NextShared == \E p \in UProcs : HistoryStep(p)

SpecShared == InitShared /\ [][NextShared]_vars

\* ---- account restore, for a new account and any set of addresses with a
\* history on the server
InitAccount ==
    /\ headers = HeadersSynced.headers
    /\ server_len = HeadersSynced.server_len
    /\ on_header = HeadersSynced.on_header
    /\ hlock = HeadersSynced.hlock
    /\ hp = HeadersSynced.hp
    /\ stop = "idle"
    /\ remote = [a \in Addrs |-> <<>>]
    /\ db_tx = [t \in TxIds |-> NoRow]
    /\ db_history = [a \in Addrs |-> <<>>]
    /\ tx_locks = [t \in TxIds |-> NoLock]
    /\ locks = [l \in LockIds |-> FreeLock]
    /\ uh = [p \in UProcs |-> UIdle]
    /\ on_transaction = [p \in UProcs |-> <<>>]
    /\ saves = [p \in UProcs |-> <<>>]
    /\ merkle_calls = [p \in UProcs |-> {}]
    /\ inserts = [t \in TxIds |-> 0]
    /\ ulock = FreeLock
    /\ reserved = {}
    /\ spent = {}
    /\ gs = [g \in GProcs |-> GIdle]
    /\ chain = NewAccount
    /\ server_used \in SUBSET (1..MaxUsedAddress)
    /\ ua = AIdle

NextAccount ==
    \/ UpdateAccount
    \/ EnsureFirstDone
    \/ GetUnusedDone
    \/ \E a \in ChainAddresses : GapUpdateHistoryDone(a)
    \/ \E a \in ChainAddresses : GapUpdateHistoryFails(a)
    \/ EnsureLoopDone
    \/ GetAllAddressesDone
    \/ \E a \in ChainAddresses : SubscribeHistoryDone(a)
    \/ UpdateAccountReturn
    \/ ServerAddressUsed

SpecAccount == InitAccount /\ [][NextAccount]_vars

\* ---- UTXO reservation
NextUtxo ==
    \/ \E g \in GProcs : GetSpendableUtxos(g)
    \/ \E g \in GProcs : CollectDone(g)
    \/ \E g \in GProcs : ReserveDone(g)
    \/ \E g \in GProcs : GetSpendableUtxosFails(g)
    \/ \E g \in GProcs : ReleaseOutputs(g)
    \/ \E g \in GProcs : SpendOutputs(g)
    \/ \E g \in GProcs : GetSpendableUtxosReturn(g)

SpecUtxo == InitHeaders /\ [][NextUtxo]_vars

\* ---- the two critical sections side by side: two addresses that list the
\* same confirmed transaction are synced while a caller asks for outputs
InitExits ==
    /\ headers = HeadersSynced.headers
    /\ server_len = HeadersSynced.server_len
    /\ on_header = HeadersSynced.on_header
    /\ hlock = HeadersSynced.hlock
    /\ hp = HeadersSynced.hp
    /\ stop = "idle"
    /\ remote = [a \in Addrs |-> <<Entry("t1", 1)>>]
    /\ db_tx = [t \in TxIds |-> NoRow]
    /\ db_history = [a \in Addrs |-> <<>>]
    /\ tx_locks = [t \in TxIds |-> NoLock]
    /\ locks = [l \in LockIds |-> FreeLock]
    /\ uh = [p \in UProcs |-> UIdle]
    /\ on_transaction = [p \in UProcs |-> <<>>]
    /\ saves = [p \in UProcs |-> <<>>]
    /\ merkle_calls = [p \in UProcs |-> {}]
    /\ inserts = [t \in TxIds |-> 0]
    /\ ulock = FreeLock
    /\ reserved = {}
    /\ spent = {}
    /\ gs = [g \in GProcs |-> GIdle]
    /\ chain = NewAccount
    /\ server_used = {}
    /\ ua = AIdle

UtxoStep(g) ==
    \/ GetSpendableUtxos(g)
    \/ CollectDone(g)
    \/ ReserveDone(g)
    \/ GetSpendableUtxosFails(g)
    \/ ReleaseOutputs(g)
    \/ SpendOutputs(g)
    \/ GetSpendableUtxosReturn(g)

NextExits ==
    \/ \E p \in UProcs : HistoryStep(p)
    \/ UtxoStep("g1")

SpecExits == InitExits /\ [][NextExits]_vars

----------------------------------------------------------------------------
(***************************************************************************)
(* Properties.                                                             *)
(***************************************************************************)

\* C1: no unspent output is held by two get_spendable_utxos calls at once (a
\* call holds what it returned until the caller releases or spends it); and
\* when two completed calls both funded from the account whose single output
\* covers either amount, exactly one of them returned that output and the
\* other returned nothing.
C1_NoDoubleSelection ==
    \A g \in GProcs, h \in GProcs :
      g # h =>
        /\ gs[g].result \cap gs[h].result = {}
        /\ ( /\ gs[g].pc = "done" /\ gs[h].pc = "done"
             /\ gs[g].accounts = <<"X">> /\ gs[h].accounts = <<"X">>
             /\ gs[g].amount <= EffectiveAmount("o1")
             /\ gs[h].amount <= EffectiveAmount("o1")
             /\ "o1" \notin spent )
           => \/ gs[g].result = {"o1"} /\ gs[h].result = {}
              \/ gs[g].result = {} /\ gs[h].result = {"o1"}

\* two overlapping calls on the single output: the one that waited got nothing
C1_Witness ==
    /\ gs["g1"].pc = "done" /\ gs["g1"].accounts = <<"X">> /\ gs["g1"].result = {"o1"}
    /\ gs["g2"].pc = "done" /\ gs["g2"].accounts = <<"X">> /\ gs["g2"].result = {}
    /\ gs["g2"].waited /\ gs["g2"].amount <= EffectiveAmount("o1")

\* the events a run published for txid t
EventsFor(p, t) == {k \in 1..Len(on_transaction[p]) : on_transaction[p][k].tx = t}

\* the stored history of p's address has t where p's remote history has it
StoredAtRemotePosition(p, t) ==
    LET stored == GetLocalHistory(db_history[AddrOf(p)]) IN
    \A k \in 1..Len(uh[p].remote) :
      uh[p].remote[k].tx_hash = t =>
        /\ k <= Len(stored)
        /\ stored[k] = <<TxStr(t), uh[p].remote[k].height>>

\* C2: two update_history runs are never both inside the critical section of
\* the same txid; no txid is ever saved with mode 'insert' twice; and when both
\* runs have completed, for every txid T that both remote histories list and
\* that had no tx row when either history arrived: T was inserted exactly
\* once, both addresses' stored histories have T at its remote position, and
\* each run published exactly one TransactionEvent for T.
C2_SharedTxidSerialized ==
    /\ \A p \in UProcs, q \in UProcs :
         (p # q /\ InCritical(p) /\ InCritical(q)) => HexId(uh[p]) # HexId(uh[q])
    /\ \A t \in TxIds : inserts[t] <= 1
    /\ (\A p \in UProcs : uh[p].pc = "done") =>
         \A t \in TxIds :
           (\A p \in UProcs : t \in uh[p].fresh) =>
             /\ inserts[t] = 1
             /\ \A p \in UProcs : StoredAtRemotePosition(p, t)
             /\ \A p \in UProcs : Cardinality(EventsFor(p, t)) = 1

\* both runs completed on a shared new txid, and one had to wait for its lock
C2_Witness ==
    /\ \A p \in UProcs : uh[p].pc = "done" /\ "t1" \in uh[p].fresh
    /\ uh["u2"].waited
    /\ inserts["t1"] = 1
    /\ Len(uh["u1"].remote) = 2 /\ uh["u1"].remote[2].tx_hash = "t1"
    /\ uh["u2"].remote[1].tx_hash = "t1"

\* C3 (as claimed): whenever update_history has completed without error, the
\* address's stored history string is the concatenation of "<txid>:<height>:"
\* over the remote history it was given.
C3_StoredEqualsRemote ==
    \A p \in UProcs :
      uh[p].pc = "done" => db_history[AddrOf(p)] = JoinHistory(uh[p].remote)

\* C4 (as claimed): a run that follows a completed run, with the server's
\* history unchanged in between, publishes no TransactionEvent.
C4_SecondRunSilent ==
    \A p \in UProcs :
      (uh[p].pc = "done" /\ uh[p].repeat) => on_transaction[p] = <<>>

\* does the proof the server gives for (t, h) lead to the local header's root?
ProofMatches(t, h) ==
    /\ h < HeadersLen(headers)
    /\ GetRootOfMerkleTree(GetMerkle(t, h).merkle, GetMerkle(t, h).pos, TxHash(t))
         = headers[h + 1]

VerifiedIffProven(e) ==
    (e.height < HeadersLen(headers)) =>
      /\ e.is_verified = 1 => ProofMatches(e.tx, e.height)
      /\ (e.height > 0 /\ ProofMatches(e.tx, e.height)) => e.is_verified = 1

\* C5 (as claimed): every transaction saved or published at a height within
\* the header store has is_verified = 1 only if the Merkle root rebuilt from
\* the server's proof at that height equals the header's merkle_root, and has
\* is_verified = 1 if it does.
C5_VerifiedIffMerkleMatches ==
    \A p \in UProcs :
      /\ \A k \in 1..Len(saves[p]) : VerifiedIffProven(saves[p][k])
      /\ \A k \in 1..Len(on_transaction[p]) : VerifiedIffProven(on_transaction[p][k])

\* C6 (as claimed): a run that follows a completed run, with the server's
\* history unchanged in between, asks get_merkle again for every transaction
\* the earlier run saved with is_verified = 0 at a height > 0.
C6_RetryVerification ==
    \A p \in UProcs :
      (uh[p].pc = "done" /\ uh[p].repeat) =>
        \A t \in uh[p].retry : \E h \in Heights : <<t, h>> \in merkle_calls[p]

\* C7 (as claimed): a remote entry of height 0 leads to no get_merkle request
\* and is saved and published with is_verified = 0.
C7_UnconfirmedNeverVerified ==
    \A p \in UProcs :
      /\ \A t \in TxIds : <<t, 0>> \notin merkle_calls[p]
      /\ \A k \in 1..Len(saves[p]) :
           saves[p][k].height = 0 => saves[p][k].is_verified = 0
      /\ \A k \in 1..Len(on_transaction[p]) :
           on_transaction[p][k].height = 0 => on_transaction[p][k].is_verified = 0

\* C8 (as claimed): whoever runs update_headers, start or process_header,
\* holds the header processing lock from its get_headers request to the end
\* of its headers.connect.
C8_BulkHoldsHeaderLock ==
    \A w \in HProcs : InBulk(w) => (hlock.locked /\ HoldsHeaderLock(w))

\* C9: every value on on_header is a height the header store contains, and a
\* value is published only in the step that completes a headers.connect, as
\* the height of the last header after that connect.
C9_PublishedAfterConnect ==
    /\ [](\A k \in 1..Len(on_header) :
            0 <= on_header[k] /\ on_header[k] <= HeadersHeight(headers))
    /\ [][on_header' # on_header =>
            /\ on_header' = Append(on_header, HeadersHeight(headers'))
            /\ HeadersLen(headers') > HeadersLen(headers)
            /\ \E w \in HProcs :
                 /\ hp[w].pc \in {"uh_connect", "ph_connect"}
                 /\ hp'[w].pc \notin {"uh_connect", "ph_connect"}]_vars

\* heights were published by the bulk loop of start and by a pushed header
C9_Witness ==
    /\ hp["start"].pubs # <<>>
    /\ \E q \in Handlers : hp[q].pc = "done" /\ hp[q].push = hp[q].entry /\ hp[q].pubs # <<>>
    /\ Len(on_header) >= 2

\* headers.height when process_header chose its branch
EntryHeight(q) == hp[q].entry - 1

\* C10: a process_header whose pushed height is headers.height + 1 connects
\* exactly the pushed header, publishes that height once and requests no
\* get_headers; one whose pushed height is further ahead runs the bulk loop
\* (at least one get_headers request) and never connects the pushed header.
C10_PushExtendsOrFallsBack ==
    /\ [](\A q \in Handlers :
            /\ hp[q].pc = "ph_connect" => hp[q].push = EntryHeight(q) + 1
            /\ (hp[q].pc \in {"ph_connect", "done", "failed"}
                  /\ hp[q].push = EntryHeight(q) + 1) => hp[q].gets = 0
            /\ (hp[q].pc = "done" /\ hp[q].push = EntryHeight(q) + 1)
                 => hp[q].pubs = <<EntryHeight(q) + 1>>
            /\ (hp[q].pc \in {"uh_get", "uh_connect", "done", "failed"}
                  /\ hp[q].push > EntryHeight(q) + 1) => hp[q].gets >= 1
            /\ InBulk(q) => hp[q].push > EntryHeight(q) + 1)
    /\ [][\A q \in Handlers :
            (hp[q].pc = "ph_connect" /\ hp'[q].pc = "done") =>
              /\ headers' = Append(headers, ChainRoot(hp[q].push))
              /\ HeadersHeight(headers') = EntryHeight(q) + 1
              /\ on_header' = Append(on_header, EntryHeight(q) + 1)]_vars

\* one notification extended the tip directly, another fell back to the bulk
\* loop and downloaded headers
C10_Witness ==
    \E q \in Handlers, r \in Handlers :
      /\ hp[q].pc = "done" /\ hp[q].push = EntryHeight(q) + 1
      /\ hp[q].pubs = <<hp[q].push>> /\ hp[q].gets = 0
      /\ hp[r].pc = "done" /\ hp[r].push > EntryHeight(r) + 1
      /\ hp[r].gets >= 2 /\ hp[r].pubs # <<>>

\* the step in which q's process_header ends on a push below the local tip
StalePushEnds(q) ==
    /\ hp[q].pc \in {"idle", "wait"}
    /\ hp'[q].pc = "done"
    /\ hp'[q].push < hp'[q].entry - 1

\* C11: a process_header whose pushed height is below the local tip
\* (headers.height) ends without suspending: it requests no get_headers,
\* publishes nothing and does not hold the header processing lock afterwards
\* (a lock that is still locked is held by another notification's handler);
\* the step in which it ends leaves the header store and on_header as they
\* are, unless that step is also the end of the connect of the handler that
\* released the lock to it, and the lock is free after it when no other
\* handler took it.
C11_StalePushIgnored ==
    /\ [](\A q \in Handlers :
            (hp[q].entry >= 0 /\ hp[q].push < EntryHeight(q)) =>
              /\ hp[q].pc = "done"
              /\ hp[q].gets = 0
              /\ hp[q].pubs = <<>>
              /\ \A k \in 1..Len(hlock.waiting) : hlock.waiting[k] # q
              /\ hlock.locked => \E r \in Handlers \ {q} : HoldsHeaderLock(r))
    /\ [][\A q \in Handlers :
            StalePushEnds(q) =>
              /\ hp'[q].entry = HeadersLen(headers')
              /\ \/ headers' = headers /\ on_header' = on_header
                 \/ \E r \in Handlers \ {q} :
                      hp[r].pc = "ph_connect" /\ hp'[r].pc = "done"
              /\ hp[q].pc = "idle" => (hlock' = hlock /\ ~hlock'.locked)
              /\ (\A r \in Handlers \ {q} : hp'[r].pc \in {"idle", "done", "failed"})
                   => hlock' = FreeLock]_vars

\* a notification two or more heights behind was handled while another
\* notification had extended the chain, and the lock is free
C11_Witness ==
    \E q \in Handlers, r \in Handlers :
      /\ hp[q].pc = "done" /\ hp[q].push < EntryHeight(q) /\ hp[q].entry >= 3
      /\ hp[r].pc = "done" /\ hp[r].pubs # <<>>
      /\ hlock = FreeLock

\* C16 (as claimed): when update_history has aborted with an error in the
\* iteration on remote entry k, the address's stored history string is the
\* concatenation of "<txid>:<height>:" over the remote entries 0..k-1.
C16_AbortLeavesPrefix ==
    \A p \in UProcs :
      uh[p].pc = "failed" =>
        db_history[AddrOf(p)] = JoinHistory(SubSeq(uh[p].remote, 1, uh[p].i))

\* C20 (as claimed): no Merkle proof is requested for, and no header is looked
\* up at, a height the header store does not contain: every get_merkle request
\* of update_history is for a height below len(headers).
C20_NoProofBeyondStore ==
    \A p \in UProcs :
      /\ \A c \in merkle_calls[p] : c[2] < HeadersLen(headers)
      /\ uh[p].pc = "get_merkle" => RemoteHeight(uh[p]) < HeadersLen(headers)

\* the run p holds or waits for the lock of txid t
Contends(p, t) ==
    /\ uh[p].pc \in {"wait_lock", "db_get_tx", "net_get_tx", "get_merkle", "save"}
    /\ HexId(uh[p]) = t

\* C19: the lock table has an entry for txid T only while some update_history
\* run holds or waits for T's lock; every run that holds or waits for T's lock
\* uses the lock object the table has for T, so all runs contending for T use
\* the same one, of which exactly one is the holder; and when every run has
\* finished, normally or with an error, the table is empty.
C19_LockTableTracksContention ==
    /\ \A t \in TxIds :
         tx_locks[t] # NoLock => \E p \in UProcs : Contends(p, t)
    /\ \A t \in TxIds, p \in UProcs :
         Contends(p, t) => (uh[p].lock # NoLock /\ uh[p].lock = tx_locks[t])
    /\ \A t \in TxIds :
         (\E p \in UProcs : Contends(p, t)) =>
           /\ locks[tx_locks[t]].locked
           /\ Cardinality({p \in UProcs : Contends(p, t) /\ InCritical(p)}) = 1
    /\ (\A p \in UProcs : uh[p].pc \in {"idle", "done", "failed"}) =>
         \A t \in TxIds : tx_locks[t] = NoLock

\* one run is inside the critical section of the second txid of its history
\* and the other waits for the same lock object; the entry of the first txid
\* is gone from the table
C19_Witness ==
    \E t \in TxIds :
      /\ Contends("u1", t) /\ InCritical("u1") /\ uh["u1"].i = 1
      /\ uh["u2"].pc = "wait_lock" /\ HexId(uh["u2"]) = t
      /\ uh["u1"].lock = uh["u2"].lock /\ tx_locks[t] = uh["u1"].lock
      /\ \A x \in TxIds \ {t} : tx_locks[x] = NoLock /\ inserts[x] = 1

\* the step in which p's run adds an event to on_transaction
Publishes(p) ==
    /\ on_transaction'[p] # on_transaction[p]
    /\ on_transaction'[p] # <<>>

\* C13: a TransactionEvent for txid T is added only in the step in which the
\* awaited save_transaction_io for T returns: the publishing run was waiting
\* for that save inside T's critical section, it alone holds the lock the table
\* has for T, the save with the event's txid, height and is_verified and the
\* address's history up to T are written, and one event is added.  A step in
\* which get_transaction, verification or save_transaction_io fails adds no
\* event, and a failed run has published one event per iteration it completed
\* and none for the iteration that failed.
C13_EventAfterSaveUnderLock ==
    /\ [][\A p \in UProcs :
            Publishes(p) =>
              /\ uh[p].pc = "save"
              /\ uh[p].lock # NoLock
              /\ tx_locks[HexId(uh[p])] = uh[p].lock
              /\ locks[uh[p].lock].locked
              /\ \A q \in UProcs \ {p} : InCritical(q) => uh[q].lock # uh[p].lock
              /\ on_transaction'[p] = Append(on_transaction[p], TransactionEventOf(uh[p]))
              /\ Len(saves'[p]) = Len(saves[p]) + 1
              /\ LET call == saves'[p][Len(saves'[p])] IN
                   /\ call.tx = HexId(uh[p])
                   /\ call.height = RemoteHeight(uh[p])
                   /\ call.is_verified = uh[p].is_verified
              /\ db_tx'[HexId(uh[p])].present
              /\ db_history'[AddrOf(p)] = JoinHistory(SyncedHistory(uh[p]))]_vars
    /\ [][\A p \in UProcs :
            (InCritical(p) /\ uh'[p].pc = "failed") =>
              on_transaction'[p] = on_transaction[p]]_vars
    /\ [](\A p \in UProcs :
            /\ Len(on_transaction[p]) = Len(saves[p])
            /\ uh[p].pc = "failed" =>
                 \A k \in 1..Len(on_transaction[p]) :
                   on_transaction[p][k].tx # HexId(uh[p]))

\* one run published the event of a txid after waiting for its lock, the
\* other failed in its iteration on that txid and published nothing for it
C13_Witness ==
    \E t \in TxIds :
      /\ uh["u1"].pc = "failed" /\ HexId(uh["u1"]) = t /\ uh["u1"].i = 1
      /\ Len(on_transaction["u1"]) = 1
      /\ uh["u2"].waited /\ uh["u2"].pc = "done"
      /\ \E k \in 1..Len(on_transaction["u2"]) : on_transaction["u2"][k].tx = t

\* the server has nothing from the height update_headers asks for: the answer
\* to its request has count = 0
NothingToSend(w) == hp[w].pc = "uh_get" /\ server_len <= hp[w].sought

\* C12: whoever runs update_headers leaves the loop eventually, when every
\* get_headers request is answered (with at least one header from the height
\* sought, or with count = 0 when the server's chain ends there) and every
\* connect completes; a connect is only started for a count of at least one;
\* and the step that takes an answer with count <= 0 ends the loop and
\* leaves the header store and on_header as they are.
C12_BulkLoopTerminates ==
    /\ \A w \in HProcs : (InBulk(w) ~> ~InBulk(w))
    /\ [](\A w \in HProcs : hp[w].pc = "uh_connect" => hp[w].count >= 1)
    /\ [][\A w \in HProcs :
            (NothingToSend(w) /\ hp'[w] # hp[w]) =>
              /\ ~InBulk(w)'
              /\ hp'[w].pubs = hp[w].pubs
              /\ hp'[w].gets = hp[w].gets
              /\ headers' = headers
              /\ on_header' = on_header]_vars

\* start's loop and a notification's loop have both ended on an answer with
\* count = 0, each after connecting at least one batch
C12_Witness ==
    /\ hp["start"].pc = "done" /\ hp["start"].gets >= 2 /\ hp["start"].pubs # <<>>
    /\ \E q \in Handlers :
         /\ hp[q].pc = "done" /\ hp[q].gets >= 2
         /\ Len(hp[q].pubs) = hp[q].gets - 1
    /\ HeadersLen(headers) = server_len

\* the positions of start(), each the call it awaits, with the moves the code
\* makes between them
StartOrder ==
    {<<"idle", "s_db">>, <<"s_db", "s_net">>, <<"s_net", "uh_get">>,
     <<"uh_get", "uh_connect">>, <<"uh_connect", "uh_get">>, <<"uh_get", "s_sub">>,
     <<"s_sub", "s_accounts">>, <<"s_accounts", "done">>}

\* C15: start() awaits, in this order and one at a time, the database start,
\* the network's first connection, the bulk header catch-up (get_headers and
\* connect in turns, up to an answer with count <= 0), subscribe_headers and
\* the reconciliation of the accounts: it never moves from one to another
\* except to the next in that order, the store is not written and nothing is
\* published before the connection or after the catch-up by start, and no
\* header notification is handled before subscribe_headers is requested;
\* stop() awaits network.stop first and db.stop only when that is done.
C15_StartStopInOrder ==
    /\ [][hp'["start"].pc # hp["start"].pc
            => <<hp["start"].pc, hp'["start"].pc>> \in StartOrder]_vars
    /\ [](hp["start"].pc \in {"idle", "s_db", "s_net"} =>
            /\ headers = <<>> /\ on_header = <<>>
            /\ hp["start"].gets = 0
            /\ \A q \in Handlers : hp[q].pc = "idle")
    /\ [](hp["start"].pc \in {"uh_get", "uh_connect"} =>
            \A q \in Handlers : hp[q].pc = "idle")
    /\ [](hp["start"].pc \in {"s_sub", "s_accounts", "done"} =>
            /\ hp["start"].gets >= 1
            /\ Len(hp["start"].pubs) = hp["start"].gets - 1)
    /\ [][stop' # stop =>
            <<stop, stop'>> \in {<<"idle", "network.stop">>,
                                 <<"network.stop", "db.stop">>,
                                 <<"db.stop", "done">>}]_vars

\* start() has gone through all its steps, with a catch-up of two batches or
\* more, and stop() has returned
C15_Witness ==
    /\ hp["start"].pc = "done" /\ hp["start"].gets >= 3
    /\ stop = "done"

\* the step in which g's get_spendable_utxos / p's update_history fails
UtxoCallFails(g)    == gs[g].pc # "failed" /\ gs'[g].pc = "failed"
HistoryRunFails(p)  == uh[p].pc # "failed" /\ uh'[p].pc = "failed"

\* C14: a lock is locked only while a call is inside its critical section:
\* the UTXO reservation lock while a get_spendable_utxos collects or reserves,
\* the lock of a txid while an update_history run works on that txid.  The
\* step in which a call fails inside its critical section ends the call with
\* the error: a failing get_spendable_utxos returns no outputs and leaves the
\* reserved outputs as they were, a failing update_history no longer has a
\* lock; in both cases the lock is free after the step with its table entry
\* removed, or held by the call that was first in line for it, which goes on.
C14_LocksReleasedOnFailure ==
    /\ [](/\ ulock.locked <=> \E g \in GProcs : gs[g].pc \in {"collect", "reserve"}
          /\ \A g \in GProcs : gs[g].pc = "failed" => gs[g].result = {}
          /\ \A l \in LockIds :
               locks[l].locked <=> \E p \in UProcs : InCritical(p) /\ uh[p].lock = l
          /\ \A p \in UProcs : uh[p].pc = "failed" => uh[p].lock = NoLock)
    /\ [][\A g \in GProcs :
            UtxoCallFails(g) =>
              /\ gs[g].pc \in {"collect", "reserve"}
              /\ reserved' = reserved
              /\ IF ulock.waiting = <<>>
                   THEN ulock' = FreeLock
                   ELSE /\ gs'[Head(ulock.waiting)].pc = "collect"
                        /\ ulock' = [locked |-> TRUE, waiting |-> Tail(ulock.waiting)]]_vars
    /\ [][\A p \in UProcs :
            HistoryRunFails(p) =>
              LET l == uh[p].lock
                  t == HexId(uh[p])
              IN  /\ InCritical(p)
                  /\ db_tx' = db_tx /\ db_history' = db_history
                  /\ IF locks[l].waiting = <<>>
                       THEN locks'[l] = FreeLock /\ tx_locks'[t] = NoLock
                       ELSE /\ uh'[Head(locks[l].waiting)].pc = "db_get_tx"
                            /\ tx_locks'[t] = l
                            /\ locks'[l] = [locked |-> TRUE,
                                            waiting |-> Tail(locks[l].waiting)]]_vars

\* an update_history run has failed on a txid and the other run, which did
\* not have to wait, is inside the critical section of that txid; a
\* get_spendable_utxos has failed while reserving and nothing is reserved
C14_Witness ==
    /\ uh["u1"].pc = "failed" /\ ~uh["u1"].waited
    /\ InCritical("u2") /\ ~uh["u2"].waited
    /\ HexId(uh["u1"]) = HexId(uh["u2"])
    /\ gs["g1"].pc = "failed" /\ gs["g1"].selected # {}
    /\ reserved = {} /\ ulock = FreeLock

\* p's subscribe_history or process_status has returned without entering
\* update_history
StatusCallReturned(p) ==
    /\ uh[p].trigger \in {"subscribe_history", "process_status"}
    /\ uh[p].pc = "done"

\* the step in which p's subscribe_history or process_status has both statuses
StatusCompared(p) ==
    /\ uh[p].pc = "get_local_status"
    /\ uh'[p].pc # "get_local_status"

\* C18: subscribe_history and process_status enter update_history (request
\* get_history) if and only if the remote status differs from the local
\* status, which is the hex digest of the address's stored history string
\* when it is read; the step that compares them writes nothing to the
\* database; and a call that found them equal has returned having requested
\* no get_history and no get_merkle, saved nothing and published nothing.
C18_UpdateIffStatusDiffers ==
    /\ [][\A p \in UProcs :
            StatusCompared(p) =>
              LET differ == GetLocalStatus(db_history[AddrOf(p)]) # uh[p].remote_status
              IN  /\ uh'[p].pc = IF differ THEN "get_history" ELSE "done"
                  /\ uh'[p].asked <=> differ
                  /\ db_history' = db_history
                  /\ db_tx' = db_tx
                  /\ saves' = saves]_vars
    /\ [](\A p \in UProcs :
            /\ uh[p].pc \in {"subscribe_address", "get_local_status"} => ~uh[p].asked
            /\ StatusCallReturned(p) =>
                 /\ uh[p].local_status = uh[p].remote_status
                 /\ uh[p].local_status = GetLocalStatus(db_history[AddrOf(p)])
                 /\ ~uh[p].asked
                 /\ uh[p].remote = <<>>
                 /\ saves[p] = <<>>
                 /\ on_transaction[p] = <<>>
                 /\ merkle_calls[p] = {})

\* a status notification that matched the status of a stored history of two
\* transactions: process_status has returned without a run
C18_Witness ==
    /\ StatusCallReturned("u1") /\ uh["u1"].trigger = "process_status"
    /\ Len(GetLocalHistory(db_history["A"])) = 2
    /\ remote["A"] # <<>>
    /\ ServerStatus(remote["A"]) = uh["u1"].remote_status

\* the gap-fill phase of update_account: everything before get_addresses()
InGapFill == ua.pc \in {"ensure_first", "get_unused", "gap_runs", "ensure_loop"}

\* C17: while update_account is in its gap-fill phase it has called
\* subscribe_address for no address; the step that makes the first
\* subscribe_address call is the one after get_addresses(), when no
\* update_history of the gap-fill is still running, and it subscribes every
\* address of the account; and whenever an address is subscribed, the last
\* ensure_address_gap call before it returned no new addresses and every
\* address the gap-fill started update_history for is among the subscribed.
C17_SubscribeAfterGapFill ==
    /\ [](InGapFill => (ua.subscribed = {} /\ ua.pending = {}))
    /\ [](ua.subscribed # {} =>
            /\ ua.ensured # <<>>
            /\ ua.ensured[Len(ua.ensured)] = {}
            /\ ua.running = {}
            /\ ua.started \subseteq ua.subscribed)
    /\ [][(ua.subscribed = {} /\ ua'.subscribed # {}) =>
            /\ ua.pc = "get_all"
            /\ ua.running = {}
            /\ ua'.subscribed = GetAddresses(chain)
            /\ EnsureAddressGap(chain) = {}]_vars

\* the addresses are subscribed after a gap-fill of two rounds: the first
\* found used addresses, so that new addresses had to be generated and synced
C17_Witness ==
    /\ ua.pc = "subscribing"
    /\ Len(ua.ensured) >= 3
    /\ ua.ensured[1] # {} /\ ua.ensured[2] # {}
    /\ ua.started = GetAddresses(chain)
    /\ chain.used # {}

====
